---- MODULE Spec2Model ----
(***************************************************************************)
(* FAQ chatbot (chatbot.py): text normalisation, the corpus index built at *)
(* import time, the three rankers and the decision combiner of             *)
(* api_message, with several request handlers running interleaved.         *)
(*                                                                         *)
(* A text is a sequence of characters; a character is a one-element name   *)
(* ("a", "A", " ", "U+00C9", ...).  A score is an exact fraction <<n, d>>  *)
(* in lowest terms: token-overlap and fuzzy scores are quotients of small  *)
(* integers, which the float division of the code maps one-to-one.         *)
(***************************************************************************)
EXTENDS Integers, Sequences, FiniteSets, TLC

VARIABLES
    FAQ,             \* the FAQ list: sequence of [question, answer, image]
    CORPUS,          \* cleaned question + " " + answer, one per FAQ entry
    NON_EMPTY,       \* the entries of CORPUS that are not blank
    VECT,            \* "fitted" or "None": the TF-IDF vectorizer
    X,               \* number of rows of the document matrix, or None
    FAQ_TOKEN_SETS,  \* token set of question + " " + answer, one per entry
    pc,              \* per request handler: position in api_message
    loc,             \* per request handler: the local variables of api_message
    s,               \* clean_text driver: the input text
    out              \* clean_text driver: clean_text(s)

vars == <<FAQ, CORPUS, NON_EMPTY, VECT, X, FAQ_TOKEN_SETS, pc, loc, s, out>>
index == <<FAQ, CORPUS, NON_EMPTY, VECT, X, FAQ_TOKEN_SETS>>

-----------------------------------------------------------------------------
(* Bounds of the model *)

\* FAQ lists hold at most MaxFaq entries
MaxFaq == 2
\* a message is the concatenation of at most MaxPieces pieces
MaxPieces == 2
\* the clean_text driver builds texts of at most MaxStrLen characters
MaxStrLen == 4
\* number of request handlers that run interleaved
NumReqs == 2
\* FAQ lists of the token-overlap driver hold at most MaxRankFaq entries
MaxRankFaq == 3

-----------------------------------------------------------------------------
(* Program constants *)

\* Python's None, for an index or a matrix that is absent
None == -1
MIN_QUERY_TOKENS == 1

-----------------------------------------------------------------------------
(* Scores *)

RECURSIVE GCD(_, _)
GCD(a, b) == IF b = 0 THEN a ELSE GCD(b, a % b)

Frac(n, d) == IF n = 0 THEN <<0, 1>> ELSE <<n \div GCD(n, d), d \div GCD(n, d)>>
Zero == <<0, 1>>
One == <<1, 1>>
Lt(a, b) == a[1] * b[2] < b[1] * a[2]
Gt(a, b) == Lt(b, a)
Le(a, b) == ~Lt(b, a)

THRESHOLD == Frac(18, 100)

Max(a, b) == IF a >= b THEN a ELSE b

-----------------------------------------------------------------------------
(* Characters and str methods *)

UPPER == <<"A","B","C","D","E","F","G","H","I","J","K","L","M",
           "N","O","P","Q","R","S","T","U","V","W","X","Y","Z">>
LOWER == <<"a","b","c","d","e","f","g","h","i","j","k","l","m",
           "n","o","p","q","r","s","t","u","v","w","x","y","z">>
DIGITS == {"0","1","2","3","4","5","6","7","8","9"}

\* the character class of TOKEN_RE, [a-z0-9]
TokenChars == {LOWER[i] : i \in 1..26} \cup DIGITS

\* characters str.strip() removes
Whitespace == {" ", "U+00A0"}

\* str.lower() of one character: a text, since U+0130 lowers to two characters
LowerChar(c) ==
    IF \E i \in 1..26 : UPPER[i] = c
    THEN <<LOWER[CHOOSE i \in 1..26 : UPPER[i] = c]>>
    ELSE CASE c = "U+212A" -> <<"k">>
           [] c = "U+0130" -> <<"i", "U+0307">>
           [] c = "U+00C9" -> <<"U+00E9">>
           [] OTHER -> <<c>>

RECURSIVE Lower(_)
Lower(t) == IF t = <<>> THEN <<>> ELSE LowerChar(Head(t)) \o Lower(Tail(t))

RECURSIVE LStrip(_)
LStrip(t) == IF t # <<>> /\ Head(t) \in Whitespace THEN LStrip(Tail(t)) ELSE t

RECURSIVE RStrip(_)
RStrip(t) ==
    IF t # <<>> /\ t[Len(t)] \in Whitespace THEN RStrip(SubSeq(t, 1, Len(t) - 1)) ELSE t

Strip(t) == RStrip(LStrip(t))

\* needle in hay
Contains(hay, needle) ==
    \E i \in 0..(Len(hay) - Len(needle)) : SubSeq(hay, i + 1, i + Len(needle)) = needle

\* TOKEN_RE.findall(t): the maximal runs of [a-z0-9], left to right
RECURSIVE Scan(_, _, _)
Scan(t, cur, acc) ==
    IF t = <<>> THEN (IF cur = <<>> THEN acc ELSE Append(acc, cur))
    ELSE IF Head(t) \in TokenChars THEN Scan(Tail(t), Append(cur, Head(t)), acc)
    ELSE Scan(Tail(t), <<>>, IF cur = <<>> THEN acc ELSE Append(acc, cur))

FindAll(t) == Scan(t, <<>>, <<>>)

\* " ".join(tokens)
RECURSIVE Join(_)
Join(tokens) ==
    IF tokens = <<>> THEN <<>>
    ELSE IF Len(tokens) = 1 THEN tokens[1]
    ELSE tokens[1] \o <<" ">> \o Join(Tail(tokens))

\* a join that loses the last token
JoinButLast(tokens) ==
    IF tokens = <<>> THEN <<>> ELSE Join(SubSeq(tokens, 1, Len(tokens) - 1))

clean_text_short(t) == JoinButLast(FindAll(Lower(t)))

clean_text(t) == Join(FindAll(Lower(t)))

token_set(t) == LET toks == FindAll(Lower(t)) IN {toks[i] : i \in 1..Len(toks)}

-----------------------------------------------------------------------------
(* difflib.SequenceMatcher(None, a, b).ratio(), for len(b) < 200 (no junk) *)

\* length of the common run of a from i and b from j (0-based), below ahi, bhi
RECURSIVE RunLen(_, _, _, _, _, _)
RunLen(a, b, i, j, ahi, bhi) ==
    IF i < ahi /\ j < bhi /\ a[i + 1] = b[j + 1]
    THEN 1 + RunLen(a, b, i + 1, j + 1, ahi, bhi)
    ELSE 0

\* find_longest_match: the longest block, then the lowest i, then the lowest j
find_longest_match(a, b, alo, ahi, blo, bhi) ==
    LET cand == (alo..(ahi - 1)) \X (blo..(bhi - 1))
        len == [p \in cand |-> RunLen(a, b, p[1], p[2], ahi, bhi)]
        k == CHOOSE n \in {len[p] : p \in cand} : \A p \in cand : len[p] <= n
        i == CHOOSE x \in alo..(ahi - 1) :
               /\ \E p \in cand : p[1] = x /\ len[p] = k
               /\ \A p \in cand : len[p] = k => x <= p[1]
        j == CHOOSE y \in blo..(bhi - 1) :
               /\ len[<<i, y>>] = k
               /\ \A z \in blo..(bhi - 1) : len[<<i, z>>] = k => y <= z
    IN  IF cand = {} THEN [i |-> alo, j |-> blo, k |-> 0]
        ELSE IF k = 0 THEN [i |-> alo, j |-> blo, k |-> 0]
        ELSE [i |-> i, j |-> j, k |-> k]

\* get_matching_blocks: the total size of the blocks
RECURSIVE Matches(_, _, _, _, _, _)
Matches(a, b, alo, ahi, blo, bhi) ==
    IF alo >= ahi \/ blo >= bhi THEN 0
    ELSE LET m == find_longest_match(a, b, alo, ahi, blo, bhi)
         IN  IF m.k = 0 THEN 0
             ELSE m.k + Matches(a, b, alo, m.i, blo, m.j)
                      + Matches(a, b, m.i + m.k, ahi, m.j + m.k, bhi)

fuzzy_ratio(a, b) ==
    IF Len(a) + Len(b) = 0 THEN One
    ELSE Frac(2 * Matches(a, b, 0, Len(a), 0, Len(b)), Len(a) + Len(b))

-----------------------------------------------------------------------------
(* Inputs: FAQ entries and messages *)

\* [question, answer, image]; image "" is an entry without the key
Entry(q, a, img) == [question |-> q, answer |-> a, image |-> img]

\* "?" / "!": cleans to the empty text
F_blank == Entry(<<"?">>, <<"!">>, "")
\* "Ab cd?" / "ef", with an image: cleans to "ab cd ef"
F_abcd == Entry(<<"A","b"," ","c","d","?">>, <<"e","f">>, "/static/uploads/a.png")
\* "" / "aa": cleans to "aa"
F_aa == Entry(<<>>, <<"a","a">>, "")

\* "a" / "1": cleans to "a 1", which holds no word of two characters
F_a1 == Entry(<<"a">>, <<"1">>, "")

EntryPool == {F_blank, F_abcd, F_aa, F_a1}

SeqsUpTo(S, n) == UNION {[1..k -> S] : k \in 0..n}

Corpora == SeqsUpTo(EntryPool, MaxFaq)

\* an eight-token query that shares "aa" with F_aa
LongQuery == <<"b","b"," ","c","c"," ","d","d"," ","e","e"," ","f","f"," ",
               "g","g"," ","k","k"," ","a","a">>

Pieces == { <<"H","i">>, <<"t","h","a","n","k">>, <<"b","y","e">>,
            <<"a","g","e","n","t">>, <<"a","b"," ">>, <<"c">>, <<"c","d">>,
            <<"!">>, <<" ">> }

RECURSIVE Concats(_)
Concats(n) ==
    IF n = 0 THEN {<<>>}
    ELSE Concats(n - 1) \cup {p \o m : p \in Pieces, m \in Concats(n - 1)}

\* the concatenations of at most MaxPieces pieces, and the long query
Messages == Concats(MaxPieces) \cup {LongQuery}

\* request.get_json(force=True, silent=True) or {}: a body with a message, or
\* a malformed / empty body
Payloads == {[present |-> TRUE, message |-> m] : m \in Messages}
            \cup {[present |-> FALSE, message |-> <<>>]}

\* the values the TF-IDF cosine similarity takes in the model
Levels == {Zero, Frac(9, 50), Frac(1, 2), One}

-----------------------------------------------------------------------------
(* Module-level construction of the corpus index *)

Result(i, sc) == [idx |-> i, score |-> sc]

\* the word tokens of TfidfVectorizer's default token_pattern: two or more
\* characters (no word of the model is an English stop word)
VocabTokens(t) == {w \in token_set(t) : Len(w) >= 2}

\* TfidfVectorizer(...).fit(docs) raises ValueError on an empty vocabulary
FitRaises(docs) == \A i \in 1..Len(docs) : VocabTokens(docs[i]) = {}

QA(item) == item.question \o <<" ">> \o item.answer

BuildCorpus(faq) == [i \in 1..Len(faq) |-> clean_text(QA(faq[i]))]

NotBlank(c) == Strip(c) # <<>>

BuildNonEmpty(faq) == SelectSeq(BuildCorpus(faq), NotBlank)

BuildTokenSets(faq) == [i \in 1..Len(faq) |-> token_set(QA(faq[i]))]

\* the vectorizer is fitted unless NON_EMPTY is empty or fit raises
Fitted(faq) == BuildNonEmpty(faq) # <<>> /\ ~FitRaises(BuildNonEmpty(faq))

Startup(faq) ==
    /\ FAQ = faq
    /\ CORPUS = BuildCorpus(faq)
    /\ NON_EMPTY = BuildNonEmpty(faq)
    /\ VECT = IF Fitted(faq) THEN "fitted" ELSE "None"
    /\ X = IF Fitted(faq) THEN Len(BuildNonEmpty(faq)) ELSE None
    /\ FAQ_TOKEN_SETS = BuildTokenSets(faq)

-----------------------------------------------------------------------------
(* Rankers *)

\* cosine_similarity(v, X).flatten(): one similarity per matrix row.  The
\* value is the library's; it is 0 for a row that shares no word with the query
SimsFor(query) ==
    LET qv == VocabTokens(query)
        shares == [j \in 1..X |-> qv \cap VocabTokens(NON_EMPTY[j]) # {}]
    IN  {sims \in [1..X -> Levels] : \A j \in 1..X : ~shares[j] => sims[j] = Zero}

\* sims.argmax(): the first position of the maximum (1-based here)
ArgMax(sims) ==
    CHOOSE j \in DOMAIN sims :
        /\ \A k \in DOMAIN sims : Le(sims[k], sims[j])
        /\ \A k \in DOMAIN sims : k < j => Lt(sims[k], sims[j])

\* rank_by_tfidf(query): the results it can return.  failed marks the
\* early return and the caught exception
rank_by_tfidf(query) ==
    IF VECT = "None" \/ X = None
    THEN {[idx |-> None, score |-> Zero, failed |-> TRUE]}
    ELSE {[idx |-> None, score |-> Zero, failed |-> TRUE]}
         \cup {[idx |-> ArgMax(sims) - 1, score |-> sims[ArgMax(sims)], failed |-> FALSE] :
                 sims \in SimsFor(query)}

\* overlap normalised by the union instead of the query
RECURSIVE TokLoopUnion(_, _, _, _)
TokLoopUnion(query_tokens, i, best_idx, best_score) ==
    IF i > Len(FAQ_TOKEN_SETS) THEN Result(best_idx, best_score)
    ELSE IF FAQ_TOKEN_SETS[i] = {} THEN TokLoopUnion(query_tokens, i + 1, best_idx, best_score)
    ELSE LET overlap == Frac(Cardinality(query_tokens \cap FAQ_TOKEN_SETS[i]),
                             Max(Cardinality(query_tokens \cup FAQ_TOKEN_SETS[i]), 1))
         IN  IF Gt(overlap, best_score)
             THEN TokLoopUnion(query_tokens, i + 1, i - 1, overlap)
             ELSE TokLoopUnion(query_tokens, i + 1, best_idx, best_score)

rank_by_token_overlap_union(query_tokens) == TokLoopUnion(query_tokens, 1, None, Zero)

\* the running best replaced on >= instead of >
RECURSIVE TokLoopGe(_, _, _, _)
TokLoopGe(query_tokens, i, best_idx, best_score) ==
    IF i > Len(FAQ_TOKEN_SETS) THEN Result(best_idx, best_score)
    ELSE IF FAQ_TOKEN_SETS[i] = {} THEN TokLoopGe(query_tokens, i + 1, best_idx, best_score)
    ELSE LET overlap == Frac(Cardinality(query_tokens \cap FAQ_TOKEN_SETS[i]),
                             Max(Cardinality(query_tokens), 1))
         IN  IF Le(best_score, overlap)
             THEN TokLoopGe(query_tokens, i + 1, i - 1, overlap)
             ELSE TokLoopGe(query_tokens, i + 1, best_idx, best_score)

rank_by_token_overlap_ge(query_tokens) == TokLoopGe(query_tokens, 1, None, Zero)

\* the loop of rank_by_token_overlap from entry i (1-based) on
RECURSIVE TokLoop(_, _, _, _)
TokLoop(query_tokens, i, best_idx, best_score) ==
    IF i > Len(FAQ_TOKEN_SETS) THEN Result(best_idx, best_score)
    ELSE IF FAQ_TOKEN_SETS[i] = {} THEN TokLoop(query_tokens, i + 1, best_idx, best_score)
    ELSE LET overlap == Frac(Cardinality(query_tokens \cap FAQ_TOKEN_SETS[i]),
                             Max(Cardinality(query_tokens), 1))
         IN  IF Gt(overlap, best_score)
             THEN TokLoop(query_tokens, i + 1, i - 1, overlap)
             ELSE TokLoop(query_tokens, i + 1, best_idx, best_score)

rank_by_token_overlap(query_tokens) == TokLoop(query_tokens, 1, None, Zero)

\* the loop of rank_by_fuzzy from entry i (1-based) on
RECURSIVE FuzzyLoop(_, _, _, _)
FuzzyLoop(query, i, best_idx, best_score) ==
    IF i > Len(CORPUS) THEN Result(best_idx, best_score)
    ELSE LET score == fuzzy_ratio(query, CORPUS[i])
         IN  IF Gt(score, best_score)
             THEN FuzzyLoop(query, i + 1, i - 1, score)
             ELSE FuzzyLoop(query, i + 1, best_idx, best_score)

rank_by_fuzzy(query) == FuzzyLoop(query, 1, None, Zero)

-----------------------------------------------------------------------------
(* api_message *)

Reqs == 1..NumReqs

\* a fixed reply text, kept as one unit
Fixed(text) == <<text>>

Resp(reply, score, method, intent_id, image, status) ==
    [reply |-> reply, score |-> score, method |-> method,
     intent_id |-> intent_id, image |-> image, status |-> status]

\* no response yet; intent_id None and image "" are keys the response lacks
NoResp == Resp(<<>>, Zero, "", None, "", 0)

FALLBACK ==
    Fixed("I don't have an exact answer. Would you like me to connect you to a human agent?")

GREETINGS == {<<"h","i">>, <<"h","e","l","l","o">>, <<"h","e","y">>}
THANKS == {<<"t","h","a","n","k">>}
BYES == {<<"b","y","e">>, <<"g","o","o","d","b","y","e">>}
HANDOFFS == {<<"h","u","m","a","n">>, <<"a","g","e","n","t">>,
             <<"s","u","p","p","o","r","t">>,
             <<"r","e","p","r","e","s","e","n","t","a","t","i","v","e">>}

\* any(g in low for g in words)
AnyIn(low, words) == \E g \in words : Contains(low, g)

GreetingResp == Resp(Fixed("Hello! How can I help you today?"), One, "greeting", None, "", 200)
ThanksResp == Resp(Fixed("You're welcome!"), One, "thanks", None, "", 200)
ByeResp == Resp(Fixed("Goodbye! Have a great day."), One, "bye", None, "", 200)
HandoffResp ==
    Resp(Fixed("I can connect you to a human agent. Please provide contact details."),
         One, "handoff", None, "", 200)
EmptyResp == Resp(Fixed("Please type a message."), Zero, "empty", None, "", 200)
EmptyCleanResp ==
    Resp(Fixed("I didn't quite get that. Could you rephrase?"), Zero, "empty_clean", None, "", 200)
NoMatchResp ==
    Resp(Fixed("I don't have enough information to answer that. Would you like human support?"),
         Zero, "no_match", None, "", 200)
ErrorResp == Resp(Fixed("Server error. Please try again later."), Zero, "error", None, "", 500)

\* the goodbye words tested before "thank"
ShortcutsByeFirst(low) ==
    IF AnyIn(low, GREETINGS) THEN GreetingResp
    ELSE IF AnyIn(low, BYES) THEN ByeResp
    ELSE IF AnyIn(low, THANKS) THEN ThanksResp
    ELSE IF AnyIn(low, HANDOFFS) THEN HandoffResp
    ELSE NoResp

\* the rule-based shortcuts on low = msg.lower(); NoResp when none applies
Shortcuts(low) ==
    IF AnyIn(low, GREETINGS) THEN GreetingResp
    ELSE IF AnyIn(low, THANKS) THEN ThanksResp
    ELSE IF AnyIn(low, BYES) THEN ByeResp
    ELSE IF AnyIn(low, HANDOFFS) THEN HandoffResp
    ELSE NoResp

\* set(TOKEN_RE.findall(q_clean))
QTokens(q_clean) == LET toks == FindAll(q_clean) IN {toks[i] : i \in 1..Len(toks)}

\* api_message up to the rankers: the response of an early return, or NoResp
EarlyReturn(msg) ==
    IF msg = <<>> THEN EmptyResp
    ELSE LET rule == Shortcuts(Lower(msg)) IN
    IF rule # NoResp THEN rule
    ELSE IF Cardinality(QTokens(clean_text(msg))) < MIN_QUERY_TOKENS THEN EmptyCleanResp
    ELSE NoResp

Best(idx, score, method) == [idx |-> idx, score |-> score, method |-> method]

\* best_idx, best_score = rank_by_tfidf(q_clean); best_method
AfterTfidf(res) == Best(res.idx, res.score, IF res.idx # None THEN "tfidf" ELSE "None")

\* the candidate taken on a tie as well
TakeGe(best, cand, method) ==
    IF Le(best.score, cand.score) THEN Best(cand.idx, cand.score, method) ELSE best

\* if cand_score > best_score: best_idx, best_score = cand; best_method = method
Take(best, cand, method) ==
    IF Gt(cand.score, best.score) THEN Best(cand.idx, cand.score, method) ELSE best

\* the override taken at the threshold as well
BuildResponseLe(best) ==
    IF best.idx = None THEN NoMatchResp
    ELSE IF Le(best.score, THRESHOLD)
         THEN Resp(FALLBACK, best.score, best.method, best.idx, FAQ[best.idx + 1].image, 200)
         ELSE Resp(FAQ[best.idx + 1].answer, best.score, best.method, best.idx,
                   FAQ[best.idx + 1].image, 200)

\* api_message after the rankers: no match, the answer, or the fallback
BuildResponse(best) ==
    IF best.idx = None THEN NoMatchResp
    ELSE IF Lt(best.score, THRESHOLD)
         THEN Resp(FALLBACK, best.score, best.method, best.idx, FAQ[best.idx + 1].image, 200)
         ELSE Resp(FAQ[best.idx + 1].answer, best.score, best.method, best.idx,
                   FAQ[best.idx + 1].image, 200)

\* the locals of a handler that has not started
LocInit ==
    [msg |-> <<>>, q_clean |-> <<>>, q_tokens |-> {},
     tfidf |-> [idx |-> None, score |-> Zero, failed |-> FALSE],
     tok |-> Result(None, Zero), fuzzy |-> Result(None, Zero),
     best |-> Best(None, Zero, "None"), resp |-> NoResp]

\* request.get_json(...) or {}; (payload.get("message") or "").strip(); the
\* shortcuts; the preprocessing
Receive(r, payload) ==
    /\ pc[r] = "idle"
    /\ LET msg == Strip(IF payload.present THEN payload.message ELSE <<>>)
           early == EarlyReturn(msg)
           q_clean == clean_text(msg)
       IN  IF early # NoResp
           THEN /\ loc' = [loc EXCEPT ![r] = [LocInit EXCEPT !.msg = msg, !.resp = early]]
                /\ pc' = [pc EXCEPT ![r] = "done"]
           ELSE /\ loc' = [loc EXCEPT ![r] = [LocInit EXCEPT !.msg = msg,
                                                !.q_clean = q_clean,
                                                !.q_tokens = QTokens(q_clean)]]
                /\ pc' = [pc EXCEPT ![r] = "tfidf"]
    /\ UNCHANGED <<index, s, out>>

\* the exception of the transform escapes rank_by_tfidf to the handler's except
TfidfStepUncaught(r) ==
    /\ pc[r] = "tfidf"
    /\ \E res \in rank_by_tfidf(loc[r].q_clean) :
          IF res.failed /\ VECT # "None"
          THEN /\ loc' = [loc EXCEPT ![r].tfidf = res, ![r].resp = ErrorResp]
               /\ pc' = [pc EXCEPT ![r] = "done"]
          ELSE /\ loc' = [loc EXCEPT ![r].tfidf = res, ![r].best = AfterTfidf(res)]
               /\ pc' = [pc EXCEPT ![r] = "token"]
    /\ UNCHANGED <<index, s, out>>

\* 1) TF-IDF
TfidfStep(r) ==
    /\ pc[r] = "tfidf"
    /\ \E res \in rank_by_tfidf(loc[r].q_clean) :
          loc' = [loc EXCEPT ![r].tfidf = res, ![r].best = AfterTfidf(res)]
    /\ pc' = [pc EXCEPT ![r] = "token"]
    /\ UNCHANGED <<index, s, out>>

\* the running best kept in one place for all handlers
TokenStepShared(r) ==
    /\ pc[r] = "token"
    /\ LET tk == rank_by_token_overlap(loc[r].q_tokens)
           best == Take(loc[r].best, tk, "token_overlap")
       IN  loc' = [q \in Reqs |->
                     IF q = r THEN [loc[q] EXCEPT !.tok = tk, !.best = best]
                     ELSE [loc[q] EXCEPT !.best = best]]
    /\ pc' = [pc EXCEPT ![r] = "fuzzy"]
    /\ UNCHANGED <<index, s, out>>

\* 2) token overlap
TokenStep(r) ==
    /\ pc[r] = "token"
    /\ LET tk == rank_by_token_overlap(loc[r].q_tokens)
       IN  loc' = [loc EXCEPT ![r].tok = tk,
                     ![r].best = Take(loc[r].best, tk, "token_overlap")]
    /\ pc' = [pc EXCEPT ![r] = "fuzzy"]
    /\ UNCHANGED <<index, s, out>>

\* the fuzzy score compared with the TF-IDF score instead of the current best
FuzzyStepVsTfidf(r) ==
    /\ pc[r] = "fuzzy"
    /\ LET fz == rank_by_fuzzy(loc[r].q_clean)
           best == IF Gt(fz.score, loc[r].tfidf.score)
                   THEN Best(fz.idx, fz.score, "fuzzy") ELSE loc[r].best
       IN  loc' = [loc EXCEPT ![r].fuzzy = fz, ![r].best = best,
                     ![r].resp = BuildResponse(best)]
    /\ pc' = [pc EXCEPT ![r] = "done"]
    /\ UNCHANGED <<index, s, out>>

\* 3) fuzzy fallback, and the response
FuzzyStep(r) ==
    /\ pc[r] = "fuzzy"
    /\ LET fz == rank_by_fuzzy(loc[r].q_clean)
           best == Take(loc[r].best, fz, "fuzzy")
       IN  loc' = [loc EXCEPT ![r].fuzzy = fz, ![r].best = best,
                     ![r].resp = BuildResponse(best)]
    /\ pc' = [pc EXCEPT ![r] = "done"]
    /\ UNCHANGED <<index, s, out>>

\* the response is sent; the handler's locals are gone
Return(r) ==
    /\ pc[r] \in {"done", "ranked"}
    /\ loc' = [loc EXCEPT ![r] = LocInit]
    /\ pc' = [pc EXCEPT ![r] = "idle"]
    /\ UNCHANGED <<index, s, out>>

Init ==
    /\ \E faq \in Corpora : Startup(faq)
    /\ pc = [r \in Reqs |-> "idle"]
    /\ loc = [r \in Reqs |-> LocInit]
    /\ s = <<>>
    /\ out = <<>>

\* one handler, every message
Next ==
    \/ \E p \in Payloads : Receive(1, p)
    \/ TfidfStep(1)
    \/ TokenStep(1)
    \/ FuzzyStep(1)
    \/ Return(1)

Spec == Init /\ [][Next]_vars

-----------------------------------------------------------------------------
(* Interleaved request handlers over one corpus index *)

ConcCorpus == <<F_abcd, F_aa>>

ConcPayloads ==
    {[present |-> TRUE, message |-> m] :
        m \in {<<"H","i">>, <<"a","b"," ">>, <<"c">>, <<"a","a">>}}

InitConc ==
    /\ Startup(ConcCorpus)
    /\ pc = [r \in Reqs |-> "idle"]
    /\ loc = [r \in Reqs |-> LocInit]
    /\ s = <<>>
    /\ out = <<>>

NextConc ==
    \E r \in Reqs :
        \/ \E p \in ConcPayloads : Receive(r, p)
        \/ TfidfStep(r)
        \/ TokenStep(r)
        \/ FuzzyStep(r)
        \/ Return(r)

SpecConc == InitConc /\ [][NextConc]_vars

-----------------------------------------------------------------------------
(* rank_by_token_overlap on every query token set *)

R_ab == Entry(<<"a","b">>, <<>>, "")
R_cd == Entry(<<"c","d">>, <<>>, "")

RankCorpora == SeqsUpTo({F_blank, R_ab, R_cd, F_abcd}, MaxRankFaq)

RankQueries == SUBSET {<<"a","b">>, <<"c","d">>, <<"z","z">>}

CallTokenOverlap(r, query_tokens) ==
    /\ pc[r] = "idle"
    /\ loc' = [loc EXCEPT ![r].q_tokens = query_tokens,
                          ![r].tok = rank_by_token_overlap(query_tokens)]
    /\ pc' = [pc EXCEPT ![r] = "ranked"]
    /\ UNCHANGED <<index, s, out>>

InitRank ==
    /\ \E faq \in RankCorpora : Startup(faq)
    /\ pc = [r \in Reqs |-> "idle"]
    /\ loc = [r \in Reqs |-> LocInit]
    /\ s = <<>>
    /\ out = <<>>

NextRank ==
    \/ \E query_tokens \in RankQueries : CallTokenOverlap(1, query_tokens)
    \/ Return(1)

SpecRank == InitRank /\ [][NextRank]_vars

-----------------------------------------------------------------------------
(* clean_text on every text over a small alphabet *)

Alphabet == {"a", "B", "1", " ", "!", "U+0130", "U+212A"}

CallCleanText(c) ==
    /\ Len(s) < MaxStrLen
    /\ s' = Append(s, c)
    /\ out' = clean_text(Append(s, c))
    /\ UNCHANGED <<index, pc, loc>>

InitClean ==
    /\ Startup(<<>>)
    /\ pc = [r \in Reqs |-> "idle"]
    /\ loc = [r \in Reqs |-> LocInit]
    /\ s = <<>>
    /\ out = clean_text(<<>>)

NextClean == \E c \in Alphabet : CallCleanText(c)

SpecClean == InitClean /\ [][NextClean]_vars

-----------------------------------------------------------------------------
(* Properties *)

\* the handler ran the rankers (q_clean is set only past the early returns)
Ranked(r) == pc[r] = "done" /\ loc[r].q_clean # <<>>

\* the handler is past rank_by_tfidf
PastTfidf(r) == pc[r] \in {"token", "fuzzy", "done"} /\ loc[r].q_clean # <<>>

Max3(a, b, c) ==
    IF Le(b, a) /\ Le(c, a) THEN a ELSE IF Le(c, b) THEN b ELSE c

\* the first of tfidf, token_overlap, fuzzy whose score is the maximum
FirstAttaining(a, b, c) ==
    IF a = Max3(a, b, c) THEN "tfidf"
    ELSE IF b = Max3(a, b, c) THEN "token_overlap"
    ELSE "fuzzy"

\* C1 (as stated): every request that reaches the rankers is answered with
\* the maximum of the three scores as its score and, as its method, the first
\* of tfidf, token_overlap, fuzzy whose score attains that maximum.
C1_MethodIsFirstMaxAlways ==
    \A r \in Reqs :
        Ranked(r) =>
            /\ loc[r].resp.score = Max3(loc[r].tfidf.score, loc[r].tok.score, loc[r].fuzzy.score)
            /\ loc[r].resp.method =
                 FirstAttaining(loc[r].tfidf.score, loc[r].tok.score, loc[r].fuzzy.score)

\* C1 (amended): a request that reaches the rankers and ends with a best
\* index is answered with the maximum of the three scores and the first of
\* tfidf, token_overlap, fuzzy attaining it (a tie never moves the result to
\* a later ranker); a request that ends without a best index is answered
\* no_match with score 0.0, and then all three scores are 0.
C1_MethodIsFirstMax ==
    \A r \in Reqs :
        Ranked(r) =>
            IF loc[r].best.idx # None
            THEN /\ loc[r].resp.score =
                      Max3(loc[r].tfidf.score, loc[r].tok.score, loc[r].fuzzy.score)
                 /\ loc[r].resp.method =
                      FirstAttaining(loc[r].tfidf.score, loc[r].tok.score, loc[r].fuzzy.score)
            ELSE /\ loc[r].resp.method = "no_match"
                 /\ loc[r].resp.score = Zero
                 /\ loc[r].tfidf.score = Zero
                 /\ loc[r].tok.score = Zero
                 /\ loc[r].fuzzy.score = Zero

\* token-overlap score > fuzzy score > TF-IDF score: answered by token_overlap
C1_Witness ==
    \E r \in Reqs :
        /\ Ranked(r)
        /\ Gt(loc[r].tok.score, loc[r].fuzzy.score)
        /\ Gt(loc[r].fuzzy.score, loc[r].tfidf.score)
        /\ loc[r].tfidf.idx # None
        /\ loc[r].resp.method = "token_overlap"

\* C2: with a best index present, a score at or above 0.18 is answered with
\* the matched entry's answer, a score below 0.18 with the fallback message;
\* either way score, method and intent_id are those of the winning ranker.
C2_Threshold ==
    \A r \in Reqs :
        Ranked(r) /\ loc[r].best.idx # None =>
            /\ loc[r].resp.reply =
                 IF Le(Frac(18, 100), loc[r].best.score)
                 THEN FAQ[loc[r].best.idx + 1].answer
                 ELSE FALLBACK
            /\ loc[r].resp.score = loc[r].best.score
            /\ loc[r].resp.method = loc[r].best.method
            /\ loc[r].resp.intent_id = loc[r].best.idx
            /\ loc[r].resp.status = 200

\* a winning score of exactly 0.18 keeps the entry's answer
C2_Witness ==
    \E r \in Reqs :
        /\ Ranked(r)
        /\ loc[r].best.idx # None
        /\ loc[r].best.score = Frac(18, 100)
        /\ loc[r].resp.reply = FAQ[loc[r].best.idx + 1].answer
        /\ loc[r].resp.reply # FALLBACK

ShortcutWords == <<GREETINGS, THANKS, BYES, HANDOFFS>>
ShortcutTags == <<"greeting", "thanks", "bye", "handoff">>
Occurs(low, i) == \E g \in ShortcutWords[i] : Contains(low, g)

\* C3: for a non-empty message, the first of greeting, thanks, goodbye,
\* handoff with a keyword in the lowercased raw message decides the response:
\* its method tag, score 1.0, and no ranker has run.
C3_ShortcutPriority ==
    \A r \in Reqs :
        pc[r] = "done" /\ loc[r].msg # <<>> =>
            LET low == Lower(loc[r].msg) IN
            \A i \in 1..4 :
                (/\ Occurs(low, i)
                 /\ \A k \in 1..(i - 1) : ~Occurs(low, k))
                =>
                /\ loc[r].resp.method = ShortcutTags[i]
                /\ loc[r].resp.score = One
                /\ loc[r].resp.intent_id = None
                /\ loc[r].resp.status = 200
                /\ loc[r].best = Best(None, Zero, "None")
                /\ loc[r].tok = Result(None, Zero)
                /\ loc[r].fuzzy = Result(None, Zero)

\* a message with both "thank" and "bye" is answered as thanks
C3_Witness ==
    \E r \in Reqs :
        /\ pc[r] = "done"
        /\ Contains(Lower(loc[r].msg), <<"t","h","a","n","k">>)
        /\ Contains(Lower(loc[r].msg), <<"b","y","e">>)
        /\ loc[r].resp.method = "thanks"

\* the FAQ positions (1-based) of the entries the matrix was built from
MatrixRows ==
    LET Kept(i) == NotBlank(CORPUS[i])
    IN  SelectSeq([i \in 1..Len(CORPUS) |-> i], Kept)

\* the FAQ index (0-based) of matrix row k (0-based)
OrigIndex(k) == MatrixRows[k + 1] - 1

\* C4: the index rank_by_tfidf returns is the FAQ index of the document with
\* the maximal similarity, and a TF-IDF win is answered with that entry's
\* answer (stated for a maximal similarity above 0, where the matrix row of
\* the maximum is a real match).
C4_TfidfIndexIsFaqIndex ==
    \A r \in Reqs :
        PastTfidf(r) /\ loc[r].tfidf.idx # None /\ Gt(loc[r].tfidf.score, Zero) =>
            /\ loc[r].tfidf.idx = OrigIndex(loc[r].tfidf.idx)
            /\ (pc[r] = "done" /\ loc[r].resp.method = "tfidf"
                  /\ loc[r].resp.reply # FALLBACK
                => loc[r].resp.reply = FAQ[OrigIndex(loc[r].tfidf.idx) + 1].answer)

\* C5: the score of rank_by_token_overlap lies in [0,1] and is 1.0 when the
\* query token set is non-empty and a subset of some entry's token set.
C5_OverlapRange ==
    \A r \in Reqs :
        pc[r] = "ranked" =>
            /\ Le(Zero, loc[r].tok.score)
            /\ Le(loc[r].tok.score, One)
            /\ (/\ loc[r].q_tokens # {}
                /\ \E i \in 1..Len(FAQ_TOKEN_SETS) : loc[r].q_tokens \subseteq FAQ_TOKEN_SETS[i])
               => loc[r].tok.score = One

\* a query that is a proper subset of an entry's token set scores 1.0
C5_Witness ==
    \E r \in Reqs :
        /\ pc[r] = "ranked"
        /\ loc[r].q_tokens # {}
        /\ \E i \in 1..Len(FAQ_TOKEN_SETS) :
              /\ loc[r].q_tokens \subseteq FAQ_TOKEN_SETS[i]
              /\ loc[r].q_tokens # FAQ_TOKEN_SETS[i]
        /\ loc[r].tok.score = One

\* C6: when rank_by_tfidf takes its early return or catches an exception, it
\* yields (None, 0.0), the request is answered with status 200 by the
\* token-overlap and fuzzy results alone, and the answer is no_match exactly
\* when neither of them scored above 0.
C6_TfidfUnavailable ==
    \A r \in Reqs :
        PastTfidf(r) /\ loc[r].tfidf.failed =>
            /\ loc[r].tfidf.idx = None
            /\ loc[r].tfidf.score = Zero
            /\ pc[r] = "done" =>
                 /\ loc[r].resp.status = 200
                 /\ IF Gt(loc[r].tok.score, Zero) \/ Gt(loc[r].fuzzy.score, Zero)
                    THEN IF Le(loc[r].fuzzy.score, loc[r].tok.score)
                         THEN /\ loc[r].resp.method = "token_overlap"
                              /\ loc[r].resp.intent_id = loc[r].tok.idx
                              /\ loc[r].resp.score = loc[r].tok.score
                         ELSE /\ loc[r].resp.method = "fuzzy"
                              /\ loc[r].resp.intent_id = loc[r].fuzzy.idx
                              /\ loc[r].resp.score = loc[r].fuzzy.score
                    ELSE loc[r].resp = NoMatchResp

\* the transform raised on a fitted vectorizer and token overlap answered
C6_Witness ==
    \E r \in Reqs :
        /\ pc[r] = "done"
        /\ VECT = "fitted"
        /\ loc[r].tfidf.failed
        /\ loc[r].resp.method = "token_overlap"
        /\ loc[r].resp.status = 200

\* the response of a request handled alone: api_message as one function of
\* the stripped message and of what rank_by_tfidf returned to it
Alone(msg, tfidf) ==
    IF EarlyReturn(msg) # NoResp THEN EarlyReturn(msg)
    ELSE BuildResponse(
            Take(Take(AfterTfidf(tfidf),
                      rank_by_token_overlap(QTokens(clean_text(msg))), "token_overlap"),
                 rank_by_fuzzy(clean_text(msg)), "fuzzy"))

\* C7: no step of any interleaving of request handlers changes the corpus
\* index, and a handler that finishes holds the response it gets when it runs
\* alone.
C7_Independent ==
    [][/\ index' = index
       /\ \A r \in Reqs :
            pc'[r] = "done" => loc'[r].resp = Alone(loc'[r].msg, loc'[r].tfidf)]_vars

\* two handlers are done at once with different ranked answers
C7_Witness ==
    \E r1, r2 \in Reqs :
        /\ r1 # r2
        /\ Ranked(r1)
        /\ Ranked(r2)
        /\ loc[r1].resp.intent_id # None
        /\ loc[r2].resp.intent_id # None
        /\ loc[r1].resp.intent_id # loc[r2].resp.intent_id

\* C8: clean_text(clean_text(s)) = clean_text(s).
C8_Idempotent == clean_text(out) = out

\* a text with an upper-case letter, punctuation and a non-ASCII character
\* that cleans to two tokens
C8_Witness ==
    /\ \E i \in 1..Len(s) : s[i] = "B"
    /\ \E i \in 1..Len(s) : s[i] = "!"
    /\ \E i \in 1..Len(s) : s[i] = "U+0130"
    /\ Len(FindAll(out)) = 2

\* the overlap score of entry i (1-based) for the query
OverlapOf(query_tokens, i) ==
    Frac(Cardinality(query_tokens \cap FAQ_TOKEN_SETS[i]), Max(Cardinality(query_tokens), 1))

\* C9: rank_by_token_overlap returns the lowest index among the entries with
\* a non-empty token set that attain the maximum overlap, when that maximum
\* is above 0, and (None, 0.0) when no entry has a positive overlap; an entry
\* with an empty token set is never returned.
C9_FirstMaxOverlap ==
    \A r \in Reqs :
        pc[r] = "ranked" =>
            LET q == loc[r].q_tokens
                cands == {i \in 1..Len(FAQ_TOKEN_SETS) : FAQ_TOKEN_SETS[i] # {}}
                top(i) == \A k \in cands : Le(OverlapOf(q, k), OverlapOf(q, i))
            IN  /\ (loc[r].tok.idx # None => FAQ_TOKEN_SETS[loc[r].tok.idx + 1] # {})
                /\ IF \E i \in cands : Gt(OverlapOf(q, i), Zero)
                   THEN /\ loc[r].tok.idx # None
                        /\ loc[r].tok.idx + 1 \in cands
                        /\ top(loc[r].tok.idx + 1)
                        /\ \A k \in cands : top(k) => loc[r].tok.idx + 1 <= k
                        /\ loc[r].tok.score = OverlapOf(q, loc[r].tok.idx + 1)
                   ELSE loc[r].tok = Result(None, Zero)

\* two entries tie at the maximum and the first of them is returned, past an
\* entry with an empty token set
C9_Witness ==
    \E r \in Reqs :
        /\ pc[r] = "ranked"
        /\ loc[r].tok.idx = 1
        /\ Len(FAQ_TOKEN_SETS) = 3
        /\ FAQ_TOKEN_SETS[1] = {}
        /\ OverlapOf(loc[r].q_tokens, 3) = loc[r].tok.score
        /\ Gt(loc[r].tok.score, Zero)

\* C10: after each ranking step the best index is absent exactly when the
\* best method is absent; a response with an intent_id names a ranker as its
\* method, carries that ranker's index and score, and 0 <= intent_id < len(FAQ).
C10_IndexAndMethod ==
    \A r \in Reqs :
        /\ PastTfidf(r) => (loc[r].best.idx = None <=> loc[r].best.method = "None")
        /\ pc[r] = "done" /\ loc[r].resp.intent_id # None =>
             /\ loc[r].resp.method \in {"tfidf", "token_overlap", "fuzzy"}
             /\ loc[r].resp.method = "tfidf" =>
                  /\ loc[r].resp.intent_id = loc[r].tfidf.idx
                  /\ loc[r].resp.score = loc[r].tfidf.score
             /\ loc[r].resp.method = "token_overlap" =>
                  /\ loc[r].resp.intent_id = loc[r].tok.idx
                  /\ loc[r].resp.score = loc[r].tok.score
             /\ loc[r].resp.method = "fuzzy" =>
                  /\ loc[r].resp.intent_id = loc[r].fuzzy.idx
                  /\ loc[r].resp.score = loc[r].fuzzy.score
             /\ 0 <= loc[r].resp.intent_id
             /\ loc[r].resp.intent_id < Len(FAQ)

\* the best index was absent after TF-IDF and token overlap, and fuzzy answered
C10_Witness ==
    \E r \in Reqs :
        /\ pc[r] = "done"
        /\ loc[r].tfidf.idx = None
        /\ loc[r].tok.idx = None
        /\ loc[r].resp.method = "fuzzy"
        /\ loc[r].resp.intent_id = loc[r].fuzzy.idx

====
